---- MODULE Spec2Model ----
(***************************************************************************)
(* Model of the ManageAssets blockchain registration bridge                *)
(* (StellarService): start-up configuration, registerAsset and the         *)
(* confirmation polling loop.  Every await of the TypeScript code is a     *)
(* point where the call is suspended; the action that resumes it carries   *)
(* the value the awaited external call returned.                           *)
(*                                                                         *)
(* Spec and FairSpec follow one call at a time with its payload; ConcSpec  *)
(* runs several calls against a network that keeps the account's sequence  *)
(* number; CatSpec is CategoriesService over its repository.               *)
(*                                                                         *)
(* PageSpec is the assets list page (search debounce, status filter and    *)
(* pagination state); AuthSpec is the browser's auth store, localStorage   *)
(* and auth-token cookie together with the route middleware that reads the *)
(* cookie; RepSpec is ReportsService.getSummary running its queries while  *)
(* other requests create and delete assets.                                *)
(***************************************************************************)
EXTENDS Integers, Sequences, FiniteSets, TLC

VARIABLES
    config,      \* the ConfigService contents (fixed per process)
    initState,   \* "constructed" | "done" | "threw" : the onModuleInit hook
    enabled,     \* StellarService.enabled
    keypair,     \* StellarService.keypair
    server,      \* StellarService.server
    contractId,  \* StellarService.contractId
    pc,          \* position of the registerAsset call
    attempt,     \* pollForConfirmation's loop variable
    trace,       \* steps taken and external calls issued by the current call
    simResult,   \* value returned by simulateTransaction
    sendResult,  \* value returned by sendTransaction
    txHash,      \* local txHash of registerAsset / pollForConfirmation
    polled,      \* statuses returned by getTransaction in the current call
    outcome,     \* "none" | "returned" | "threw"
    retVal,      \* value the promise resolved with
    error,       \* error the promise rejected with
    waited,      \* milliseconds the current call has spent in sleep()
    asset,       \* the Asset passed to registerAsset
    assetScVal,  \* the on-chain record built by registerAsset
    calls,       \* concurrent registerAsset calls: position and locals of each
    ledger,      \* the network: the signing account's sequence number and
                 \* the status of each submitted transaction
    categories,  \* rows of the Category repository
    catResult,   \* how the last CategoriesService call ended
    repoCalls,   \* repository methods the last CategoriesService call used
    search,          \* AssetsPage: text of the search box
    debouncedSearch, \* AssetsPage: search term sent to useAssets
    statusFilter,    \* AssetsPage: selected status ("" is All Statuses)
    currentPage,     \* AssetsPage: page sent to useAssets
    sortField,       \* AssetsPage: column the list is sorted by
    sortOrder,       \* AssetsPage: "asc" | "desc"
    data,            \* what useAssets hands to the current render
    timer,           \* the debounce setTimeout of the last search effect
    effects,         \* effects React has scheduled after the last commit
    lastEvent,       \* the handler, timer or effect that ran last
    pageBefore,      \* currentPage before the last event
    store,           \* useAuthStore: user, token, isAuthenticated
    localStorage,    \* the browser's localStorage entries the store uses
    cookie,          \* the browser's auth-token cookie and its age
    request,         \* the last request handed to the route middleware
    response,        \* what the middleware answered to it
    authOp,          \* the store operation or browser event that ran last
    assetRows,       \* the asset table: number of rows per status
    summary,         \* position and locals of the getSummary call
    summaryResult    \* the value getSummary resolved with

stellarVars == <<config, initState, enabled, keypair, server, contractId,
                 pc, attempt, trace, simResult, sendResult, txHash, polled,
                 outcome, retVal, error, waited, asset, assetScVal>>

concVars == <<calls, ledger>>

catVars == <<categories, catResult, repoCalls>>

pageVars == <<search, debouncedSearch, statusFilter, currentPage, sortField,
              sortOrder, data, timer, effects, lastEvent, pageBefore>>

authVars == <<store, localStorage, cookie, request, response, authOp>>

repVars == <<assetRows, summary, summaryResult>>

vars == <<stellarVars, concVars, catVars, pageVars, authVars, repVars>>

\* what each specification leaves alone
nonStellarVars == <<concVars, catVars, pageVars, authVars, repVars>>

nonConcVars == <<stellarVars, catVars, pageVars, authVars, repVars>>

nonCatVars == <<stellarVars, concVars, pageVars, authVars, repVars>>

nonPageVars == <<stellarVars, concVars, catVars, authVars, repVars>>

nonAuthVars == <<stellarVars, concVars, catVars, pageVars, repVars>>

nonRepVars == <<stellarVars, concVars, catVars, pageVars, authVars>>

(***************************************************************************)
(* Bounds and value domains                                                *)
(***************************************************************************)
NumHashes == 2

NumCalls == 2

Calls == 1..NumCalls

NumCategoryIds == 3

CategoryIdNames == <<"uuid-1", "uuid-2", "uuid-3", "uuid-4", "uuid-5">>

CategoryIds == {CategoryIdNames[i] : i \in 1..NumCategoryIds}

CategoryNames == {"Electronics", "Furniture", "Vehicles"}

HashNames == <<"h1", "h2", "h3", "h4">>

Hashes == {HashNames[i] : i \in 1..NumHashes}

ErrorPayloads == {"e1", "e2"}

Undefined == "<undefined>"

EnabledSettings == {Undefined, "true", "TRUE", "false", "1", ""}

SecretKeys == {Undefined, "", "SINVALID", "SVALID"}

ContractIds == {Undefined, "", "CID"}

SendStatuses == {"PENDING", "DUPLICATE", "TRY_AGAIN_LATER", "ERROR"}

GetTransactionStatuses == {"SUCCESS", "FAILED", "NOT_FOUND"}

NoSimResult == [kind |-> "none", error |-> ""]

NoSendResult == [status |-> "none", hash |-> Undefined, errorResult |-> ""]

NoError == [message |-> "", detail |-> ""]

\* AssetStatus; "DISPOSED" stands for a value the bridge does not recognise
AssetStatuses == {"ACTIVE", "ASSIGNED", "MAINTENANCE", "RETIRED", "DISPOSED"}

\* asset.purchasePrice in thousandths (19995 is 19.995); NoPrice is null
NoPrice == -1

PurchasePrices == {NoPrice, 0, 5, 1005, 19990, 19994, 19995, 19999}

Assets == [status : AssetStatuses, purchasePrice : PurchasePrices]

NoAsset == [status |-> Undefined, purchasePrice |-> NoPrice]

NoScVal == [status |-> Undefined, purchase_value |-> -1]

(***************************************************************************)
(* Program constants and pure helpers                                      *)
(***************************************************************************)
MAX_ATTEMPTS == 20

\* variant: a five second polling interval
INTERVAL_MS_5000 == 5 * 1000

INTERVAL_MS == 3000

\* JavaScript truthiness of a string-or-undefined value, as used by !x
Truthy(v) == v # Undefined /\ v # ""

\* this.configService.get('STELLAR_ENABLED') === 'true'
EnabledSetting(v) == v = "true"

\* variant: only the secret key is checked
MissingConfig_keyOnly(secretKey, cid) == ~Truthy(secretKey)

\* !secretKey || !this.contractId
MissingConfig(secretKey, cid) == ~Truthy(secretKey) \/ ~Truthy(cid)

\* Keypair.fromSecret accepts only a well-formed secret seed
ValidSecret(secretKey) == secretKey = "SVALID"

\* variant: the error state of the simulation goes unrecognised
isSimulationError_unrecognised(r) == r.kind = "none"

\* rpc.Api.isSimulationError(simResult)
isSimulationError(r) == r.kind = "error"

\* variant: compares against a status sendTransaction never returns
isSendError_wrongLiteral(r) == r.status = "FAILED"

\* sendResult.status === 'ERROR'
isSendError(r) == r.status = "ERROR"

\* variant: compares against a status getTransaction never returns
isSuccess_wrongLiteral(status) == status = "CONFIRMED"

\* result.status === rpc.Api.GetTransactionStatus.SUCCESS
isSuccess(status) == status = "SUCCESS"

\* variant: compares against a status getTransaction never returns
isFailed_wrongLiteral(status) == status = "ERROR"

\* result.status === rpc.Api.GetTransactionStatus.FAILED
isFailed(status) == status = "FAILED"

\* variant: off-by-one loop bound
LoopContinues_offByOne(a) == a <= MAX_ATTEMPTS + 1

\* the for-loop condition attempt <= MAX_ATTEMPTS
LoopContinues(a) == a <= MAX_ATTEMPTS

\* variant: every status but ACTIVE is written as retired
mapStatus_activeOnly(status) ==
    IF status = "ACTIVE" THEN "Active" ELSE "Retired"

\* mapStatus: RETIRED maps to 'Retired', the default branch to 'Active'
mapStatus(status) ==
    IF status = "RETIRED" THEN "Retired" ELSE "Active"

(***************************************************************************)
(* IEEE-754 double arithmetic of Math.round(Number(price) * 100).          *)
(* Naturals wider than the checker's integers are little-endian sequences  *)
(* of limbs in base 4096 without high zero limbs; a positive double is     *)
(* [m, k] with value m / 2^k and m of 53 or 54 significant bits.           *)
(***************************************************************************)
LimbBase == 4096

LimbBits == 12

MantissaBits == 53

RECURSIVE Pow2(_)
Pow2(k) == IF k = 0 THEN 1 ELSE 2 * Pow2(k - 1)

RECURSIVE BigFromInt(_)
BigFromInt(n) ==
    IF n = 0 THEN <<>> ELSE <<n % LimbBase>> \o BigFromInt(n \div LimbBase)

RECURSIVE BigToInt(_)
BigToInt(a) ==
    IF a = <<>> THEN 0 ELSE Head(a) + LimbBase * BigToInt(Tail(a))

RECURSIVE BigStrip(_)
BigStrip(a) ==
    IF a = <<>> THEN <<>>
    ELSE IF a[Len(a)] = 0 THEN BigStrip(SubSeq(a, 1, Len(a) - 1))
    ELSE a

\* a * c + carry for a small c
RECURSIVE BigMulSmall(_, _, _)
BigMulSmall(a, c, carry) ==
    IF a = <<>> THEN BigFromInt(carry)
    ELSE LET t == Head(a) * c + carry
         IN  <<t % LimbBase>> \o BigMulSmall(Tail(a), c, t \div LimbBase)

\* quotient (with high zero limbs) and remainder of a by a small c
RECURSIVE BigDivRec(_, _)
BigDivRec(a, c) ==
    IF a = <<>> THEN [q |-> <<>>, r |-> 0]
    ELSE LET hi == BigDivRec(Tail(a), c)
             t == hi.r * LimbBase + Head(a)
         IN  [q |-> <<t \div c>> \o hi.q, r |-> t % c]

BigDivSmall(a, c) ==
    LET d == BigDivRec(a, c) IN [q |-> BigStrip(d.q), r |-> d.r]

RECURSIVE SmallBitLen(_)
SmallBitLen(n) == IF n = 0 THEN 0 ELSE 1 + SmallBitLen(n \div 2)

BigBitLen(a) ==
    IF a = <<>> THEN 0
    ELSE LimbBits * (Len(a) - 1) + SmallBitLen(a[Len(a)])

RECURSIVE BigShiftLeft(_, _)
BigShiftLeft(a, k) ==
    IF a = <<>> THEN <<>>
    ELSE IF k >= LimbBits THEN BigShiftLeft(<<0>> \o a, k - LimbBits)
    ELSE BigMulSmall(a, Pow2(k), 0)

\* floor(a / 2^k)
RECURSIVE BigShiftRight(_, _)
BigShiftRight(a, k) ==
    IF a = <<>> THEN <<>>
    ELSE IF k >= LimbBits THEN BigShiftRight(Tail(a), k - LimbBits)
    ELSE BigDivSmall(a, Pow2(k)).q

\* round-to-nearest, ties-to-even of q + r/c
RoundHalfEven(q, r, c) ==
    IF 2 * r > c \/ (2 * r = c /\ q # <<>> /\ Head(q) % 2 = 1)
    THEN BigMulSmall(q, 1, 1)
    ELSE q

\* the least k for which floor(n * 2^k / 1000) has 53 bits
RECURSIVE Exponent(_, _)
Exponent(n, k) ==
    IF BigBitLen(BigDivSmall(BigShiftLeft(BigFromInt(n), k), 1000).q)
          >= MantissaBits
    THEN k
    ELSE Exponent(n, k + 1)

\* Number(asset.purchasePrice): the double nearest to n / 1000, n > 0
Number(n) ==
    LET k == Exponent(n, 0)
        d == BigDivSmall(BigShiftLeft(BigFromInt(n), k), 1000)
    IN  [m |-> RoundHalfEven(d.q, d.r, 1000), k |-> k]

\* x * 100 in double arithmetic
Times100(x) ==
    LET p == BigMulSmall(x.m, 100, 0)
        s == BigBitLen(p) - MantissaBits
        d == BigDivSmall(p, Pow2(s))
    IN  [m |-> RoundHalfEven(d.q, d.r, Pow2(s)), k |-> x.k - s]

\* variant: the cents are truncated instead of rounded
MathTrunc(y) == BigToInt(BigShiftRight(y.m, y.k))

\* Math.round(y) = floor(y + 1/2), for a double with fraction bits
MathRound(y) == (BigToInt(BigShiftRight(y.m, y.k - 1)) + 1) \div 2

\* Math.round(Number(price) * 100) for every positive price of the model
RoundedCents ==
    [n \in {p \in PurchasePrices : p > 0} |-> MathRound(Times100(Number(n)))]

\* asset.purchasePrice ? Math.round(Number(asset.purchasePrice) * 100) : 0
purchasePrice(a) ==
    IF a.purchasePrice = NoPrice \/ a.purchasePrice = 0 THEN 0
    ELSE RoundedCents[a.purchasePrice]

\* number of occurrences of step s in a trace
RECURSIVE Count(_, _)
Count(t, s) ==
    IF t = <<>> THEN 0
    ELSE (IF Head(t) = s THEN 1 ELSE 0) + Count(Tail(t), s)

ExternalCalls == {"getAccount", "simulateTransaction", "sendTransaction", "getTransaction"}

\* the external calls of a trace, in order
RECURSIVE External(_)
External(t) ==
    IF t = <<>> THEN <<>>
    ELSE IF Head(t) \in ExternalCalls THEN <<Head(t)>> \o External(Tail(t))
    ELSE External(Tail(t))

(***************************************************************************)
(* Initial state: the service as constructed, before the lifecycle hook    *)
(***************************************************************************)
StellarInit ==
    /\ config \in [STELLAR_ENABLED : EnabledSettings,
                   STELLAR_SECRET_KEY : SecretKeys,
                   STELLAR_CONTRACT_ID : ContractIds]
    /\ initState = "constructed"
    /\ enabled = FALSE
    /\ keypair = Undefined
    /\ server = Undefined
    /\ contractId = Undefined
    /\ pc = "idle"
    /\ attempt = 0
    /\ trace = <<>>
    /\ simResult = NoSimResult
    /\ sendResult = NoSendResult
    /\ txHash = Undefined
    /\ polled = <<>>
    /\ outcome = "none"
    /\ retVal = Undefined
    /\ error = NoError
    /\ waited = 0
    /\ asset = NoAsset
    /\ assetScVal = NoScVal

callVars == <<pc, attempt, trace, simResult, sendResult, txHash, polled,
              outcome, retVal, error, waited, asset, assetScVal>>

payloadVars == <<asset, assetScVal>>

serviceVars == <<config, initState, enabled, keypair, server, contractId>>

(***************************************************************************)
(* onModuleInit                                                            *)
(***************************************************************************)
OnModuleInit ==
    /\ initState = "constructed"
    /\ IF ~EnabledSetting(config.STELLAR_ENABLED)
       THEN /\ enabled' = FALSE
            /\ initState' = "done"
            /\ UNCHANGED <<keypair, server, contractId>>
       ELSE LET secretKey == config.STELLAR_SECRET_KEY
                cid == config.STELLAR_CONTRACT_ID
            IN  /\ contractId' = cid
                /\ IF MissingConfig(secretKey, cid)
                   THEN /\ enabled' = FALSE
                        /\ initState' = "done"
                        /\ UNCHANGED <<keypair, server>>
                   ELSE IF ~ValidSecret(secretKey)
                   THEN \* Keypair.fromSecret throws: the hook fails
                        /\ enabled' = TRUE
                        /\ initState' = "threw"
                        /\ UNCHANGED <<keypair, server>>
                   ELSE /\ enabled' = TRUE
                        /\ keypair' = secretKey
                        /\ server' = "rpc.Server"
                        /\ initState' = "done"
    /\ UNCHANGED <<config, callVars>>
    /\ UNCHANGED nonStellarVars

\* get isEnabled()
isEnabled == enabled

(***************************************************************************)
(* registerAsset                                                           *)
(***************************************************************************)
\* variant: the error is caught and logged, the promise resolves
Throw_swallowed(message, detail) ==
    /\ pc' = "done"
    /\ outcome' = "returned"
    /\ error' = NoError
    /\ retVal' = Undefined

\* throw new Error(`${message}: ${detail}`)
Throw(message, detail) ==
    /\ pc' = "done"
    /\ outcome' = "threw"
    /\ error' = [message |-> message, detail |-> detail]
    /\ retVal' = Undefined

\* variant: the promise resolves without the hash
Return_undefined(value) ==
    /\ pc' = "done"
    /\ outcome' = "returned"
    /\ retVal' = Undefined
    /\ error' = NoError

\* return value
Return(value) ==
    /\ pc' = "done"
    /\ outcome' = "returned"
    /\ retVal' = value
    /\ error' = NoError

\* lines 72-130: build the payload, then fetch the source account
RegisterAsset ==
    /\ initState = "done"
    /\ pc \in {"idle", "done"}
    /\ attempt' = 0
    /\ simResult' = NoSimResult
    /\ sendResult' = NoSendResult
    /\ txHash' = Undefined
    /\ polled' = <<>>
    /\ waited' = 0
    /\ \E a \in Assets : asset' = a
    /\ IF keypair = Undefined
       THEN \* this.keypair.publicKey() on an unset keypair
            /\ trace' = <<>>
            /\ assetScVal' = NoScVal
            /\ Throw("TypeError", "publicKey")
       ELSE /\ assetScVal' = [status |-> mapStatus(asset'.status),
                              purchase_value |-> purchasePrice(asset')]
            /\ trace' = <<"getAccount">>
            /\ pc' = "getAccount"
            /\ outcome' = "none"
            /\ retVal' = Undefined
            /\ error' = NoError
    /\ UNCHANGED serviceVars
    /\ UNCHANGED nonStellarVars

\* lines 130-143: account fetched, build the transaction, simulate it
GetAccountReturns ==
    /\ pc = "getAccount"
    /\ trace' = trace \o <<"build", "simulateTransaction">>
    /\ pc' = "simulateTransaction"
    /\ UNCHANGED <<attempt, simResult, sendResult, txHash, polled, outcome,
                   retVal, error, serviceVars, waited, payloadVars>>
    /\ UNCHANGED nonStellarVars

\* lines 143-155: simulation result, assemble, sign, submit
SimulateReturns ==
    /\ pc = "simulateTransaction"
    /\ \E r \in {[kind |-> "success", error |-> ""]}
              \cup {[kind |-> "error", error |-> e] : e \in ErrorPayloads} :
        /\ simResult' = r
        /\ IF isSimulationError(r)
           THEN /\ Throw("Simulation failed", r.error)
                /\ UNCHANGED trace
           ELSE /\ trace' = trace \o <<"assemble", "sign", "sendTransaction">>
                /\ pc' = "sendTransaction"
                /\ UNCHANGED <<outcome, retVal, error>>
    /\ UNCHANGED <<attempt, sendResult, txHash, polled, serviceVars, waited, payloadVars>>
    /\ UNCHANGED nonStellarVars

\* variant: a rejected submission is submitted again
SendReturns_retry ==
    /\ pc = "sendTransaction"
    /\ \E r \in {[status |-> s, hash |-> h, errorResult |-> ""] :
                     s \in SendStatuses \ {"ERROR"}, h \in Hashes}
              \cup {[status |-> "ERROR", hash |-> h, errorResult |-> e] :
                     h \in Hashes, e \in ErrorPayloads} :
        /\ sendResult' = r
        /\ IF isSendError(r)
           THEN /\ IF Count(trace, "sendTransaction") < 2
                   THEN /\ trace' = trace \o <<"sendTransaction">>
                        /\ UNCHANGED <<pc, outcome, retVal, error>>
                   ELSE /\ Throw("Transaction submission failed", r.errorResult)
                        /\ UNCHANGED trace
                /\ UNCHANGED <<txHash, attempt>>
           ELSE /\ txHash' = r.hash
                /\ attempt' = 1
                /\ trace' = trace \o <<"sleep">>
                /\ pc' = "sleep"
                /\ UNCHANGED <<outcome, retVal, error>>
    /\ UNCHANGED <<simResult, polled, serviceVars, waited, payloadVars>>
    /\ UNCHANGED nonStellarVars

\* lines 155-172: submission result, then pollForConfirmation up to its
\* first sleep
SendReturns ==
    /\ pc = "sendTransaction"
    /\ \E r \in {[status |-> s, hash |-> h, errorResult |-> ""] :
                     s \in SendStatuses \ {"ERROR"}, h \in Hashes}
              \cup {[status |-> "ERROR", hash |-> h, errorResult |-> e] :
                     h \in Hashes, e \in ErrorPayloads} :
        /\ sendResult' = r
        /\ IF isSendError(r)
           THEN /\ Throw("Transaction submission failed", r.errorResult)
                /\ UNCHANGED <<txHash, attempt, trace>>
           ELSE /\ txHash' = r.hash
                /\ attempt' = 1
                /\ IF LoopContinues(1)
                   THEN /\ trace' = trace \o <<"sleep">>
                        /\ pc' = "sleep"
                        /\ UNCHANGED <<outcome, retVal, error>>
                   ELSE /\ Throw("Transaction not confirmed", r.hash)
                        /\ UNCHANGED trace
    /\ UNCHANGED <<simResult, polled, serviceVars, waited, payloadVars>>
    /\ UNCHANGED nonStellarVars

\* variant: the server handle is re-created before every status query
SleepReturns_reconnect ==
    /\ pc = "sleep"
    /\ trace' = trace \o <<"getTransaction">>
    /\ pc' = "getTransaction"
    /\ waited' = waited + INTERVAL_MS
    /\ server' = "rpc.Server (reconnected)"
    /\ UNCHANGED <<attempt, simResult, sendResult, txHash, polled, outcome,
                   retVal, error, config, initState, enabled, keypair,
                   contractId, payloadVars>>
    /\ UNCHANGED nonStellarVars

\* lines 172-173: the interval elapsed, query the transaction status
SleepReturns ==
    /\ pc = "sleep"
    /\ trace' = trace \o <<"getTransaction">>
    /\ pc' = "getTransaction"
    /\ waited' = waited + INTERVAL_MS
    /\ UNCHANGED <<attempt, simResult, sendResult, txHash, polled, outcome,
                   retVal, error, serviceVars, payloadVars>>
    /\ UNCHANGED nonStellarVars

\* lines 173-188: status received; return, throw, or go round the loop
GetTransactionReturns ==
    /\ pc = "getTransaction"
    /\ \E status \in GetTransactionStatuses :
        /\ polled' = Append(polled, status)
        /\ IF isSuccess(status)
           THEN /\ Return(txHash)
                /\ UNCHANGED <<attempt, trace>>
           ELSE IF isFailed(status)
           THEN /\ Throw("Transaction failed on-chain", txHash)
                /\ UNCHANGED <<attempt, trace>>
           ELSE /\ attempt' = attempt + 1
                /\ IF LoopContinues(attempt + 1)
                   THEN /\ trace' = trace \o <<"sleep">>
                        /\ pc' = "sleep"
                        /\ UNCHANGED <<outcome, retVal, error>>
                   ELSE /\ Throw("Transaction not confirmed", txHash)
                        /\ UNCHANGED trace
    /\ UNCHANGED <<simResult, sendResult, txHash, serviceVars, waited, payloadVars>>
    /\ UNCHANGED nonStellarVars

(***************************************************************************)
(* Concurrent registerAsset calls on an enabled bridge, against a network  *)
(* that keeps the signing account's sequence number.  Each call runs the   *)
(* same steps as above; one round of the polling loop (sleep, then         *)
(* getTransaction) is one step, and the payload is left out.               *)
(***************************************************************************)
IdleCall ==
    [pc |-> "idle", attempt |-> 0, account |-> -1, txSeq |-> -1,
     outcome |-> "none"]

ConcIdle ==
    /\ calls = [c \in Calls |-> IdleCall]
    /\ ledger = [sequence |-> 0, tx |-> [c \in Calls |-> "none"]]

\* the state onModuleInit leaves with a complete configuration
EnabledBridge ==
    /\ config = [STELLAR_ENABLED |-> "true", STELLAR_SECRET_KEY |-> "SVALID",
                 STELLAR_CONTRACT_ID |-> "CID"]
    /\ initState = "done"
    /\ enabled = TRUE
    /\ keypair = "SVALID"
    /\ server = "rpc.Server"
    /\ contractId = "CID"
    /\ pc = "idle"
    /\ attempt = 0
    /\ trace = <<>>
    /\ simResult = NoSimResult
    /\ sendResult = NoSendResult
    /\ txHash = Undefined
    /\ polled = <<>>
    /\ outcome = "none"
    /\ retVal = Undefined
    /\ error = NoError
    /\ waited = 0
    /\ asset = NoAsset
    /\ assetScVal = NoScVal

\* the call's promise settles and its locals go out of scope
Settled(c, o) ==
    [calls EXCEPT ![c].pc = "done", ![c].attempt = 0, ![c].outcome = o]

\* variant: a call waits until no other call is in flight
CanStart_exclusive(c) ==
    \A d \in Calls : calls[d].pc \in {"idle", "done"}

\* registerAsset takes no lock and joins no queue
CanStart(c) == calls[c].pc = "idle"

\* lines 72-130: a call starts and fetches the source account
CRegisterAsset(c) ==
    /\ calls[c].pc = "idle"
    /\ CanStart(c)
    /\ calls' = [calls EXCEPT ![c].pc = "getAccount"]
    /\ UNCHANGED <<ledger, nonConcVars>>

\* lines 130-143: the account as the network has it now; the transaction
\* built from it carries the next sequence number
CGetAccountReturns(c) ==
    /\ calls[c].pc = "getAccount"
    /\ calls' = [calls EXCEPT ![c].account = ledger.sequence,
                              ![c].txSeq = ledger.sequence + 1,
                              ![c].pc = "simulateTransaction"]
    /\ UNCHANGED <<ledger, nonConcVars>>

\* lines 143-155: simulation result, assemble, sign, submit
CSimulateReturns(c) ==
    /\ calls[c].pc = "simulateTransaction"
    /\ \E r \in {"success", "error"} :
        IF isSimulationError([kind |-> r, error |-> ""])
        THEN calls' = Settled(c, "Simulation failed")
        ELSE calls' = [calls EXCEPT ![c].pc = "sendTransaction"]
    /\ UNCHANGED <<ledger, nonConcVars>>

\* lines 155-171: the network rejects the submission or takes the
\* transaction into its pool
CSendReturns(c) ==
    /\ calls[c].pc = "sendTransaction"
    /\ \E status \in {"PENDING", "ERROR"} :
        IF isSendError([status |-> status])
        THEN /\ calls' = Settled(c, "Transaction submission failed")
             /\ UNCHANGED ledger
        ELSE /\ calls' = [calls EXCEPT ![c].pc = "poll", ![c].attempt = 1]
             /\ ledger' = [ledger EXCEPT !.tx[c] = "NOT_FOUND"]
    /\ UNCHANGED nonConcVars

\* variant: a timed-out call goes on querying its transaction
Polling_afterTimeout(c) ==
    \/ calls[c].pc = "poll"
    \/ calls[c].outcome = "Transaction not confirmed"

\* the loop of pollForConfirmation runs only inside the call
Polling(c) == calls[c].pc = "poll"

\* lines 171-188: one round of the loop: sleep, query, decide
CPoll(c) ==
    /\ Polling(c)
    /\ LET status == ledger.tx[c]
       IN  IF isSuccess(status)
           THEN calls' = Settled(c, "returned")
           ELSE IF isFailed(status)
           THEN calls' = Settled(c, "Transaction failed on-chain")
           ELSE IF LoopContinues(calls[c].attempt + 1)
           THEN calls' = [calls EXCEPT ![c].attempt = @ + 1]
           ELSE calls' = Settled(c, "Transaction not confirmed")
    /\ UNCHANGED <<ledger, nonConcVars>>

\* the network applies a pooled transaction: with the account's next
\* sequence number it succeeds or fails and consumes the number, with any
\* other number it is rejected
LedgerCloses(c) ==
    /\ ledger.tx[c] = "NOT_FOUND"
    /\ IF calls[c].txSeq = ledger.sequence + 1
       THEN \E status \in {"SUCCESS", "FAILED"} :
                ledger' = [ledger EXCEPT !.tx[c] = status,
                                         !.sequence = @ + 1]
       ELSE ledger' = [ledger EXCEPT !.tx[c] = "FAILED"]
    /\ UNCHANGED <<calls, nonConcVars>>

(***************************************************************************)
(* CategoriesService, as its unit tests describe it: every method looks    *)
(* the row up through the repository first and raises when the lookup      *)
(* decides against the call.                                               *)
(***************************************************************************)
NoCategory == [id |-> "", name |-> ""]

NoCatResult ==
    [op |-> "none", arg |-> "", outcome |-> "none", error |-> "",
     value |-> NoCategory]

CatIdle ==
    /\ categories = {}
    /\ catResult = NoCatResult
    /\ repoCalls = <<>>

\* repository.findOne({ where: { id } }); NoCategory stands for null
findOneById(id) ==
    IF \E x \in categories : x.id = id
    THEN CHOOSE x \in categories : x.id = id
    ELSE NoCategory

\* repository.findOne({ where: { name } })
findOneByName(name) ==
    IF \E x \in categories : x.name = name
    THEN CHOOSE x \in categories : x.name = name
    ELSE NoCategory

CatThrows(op, arg, message) ==
    catResult' = [op |-> op, arg |-> arg, outcome |-> "threw",
                  error |-> message, value |-> NoCategory]

CatReturns(op, arg, value) ==
    catResult' = [op |-> op, arg |-> arg, outcome |-> "returned",
                  error |-> "", value |-> value]

\* variant: create saves without looking at the lookup's result
Create_noConflictCheck(name) ==
    /\ \E id \in CategoryIds :
        /\ \A x \in categories : x.id # id
        /\ repoCalls' = <<"findOne", "create", "save">>
        /\ categories' = categories \cup {[id |-> id, name |-> name]}
        /\ CatReturns("create", name, [id |-> id, name |-> name])
    /\ UNCHANGED nonCatVars

\* CategoriesService.create(dto)
Create(name) ==
    /\ IF findOneByName(name) # NoCategory
       THEN /\ repoCalls' = <<"findOne">>
            /\ CatThrows("create", name,
                   "ConflictException: A category with this name already exists")
            /\ UNCHANGED categories
       ELSE \E id \in CategoryIds :
            /\ \A x \in categories : x.id # id
            /\ repoCalls' = <<"findOne", "create", "save">>
            /\ categories' = categories \cup {[id |-> id, name |-> name]}
            /\ CatReturns("create", name, [id |-> id, name |-> name])
    /\ UNCHANGED nonCatVars

\* CategoriesService.findOne(id)
FindOne(id) ==
    /\ repoCalls' = <<"findOne">>
    /\ IF findOneById(id) = NoCategory
       THEN CatThrows("findOne", id, "NotFoundException: Category not found")
       ELSE CatReturns("findOne", id, findOneById(id))
    /\ UNCHANGED <<categories, nonCatVars>>

\* variant: remove hands whatever the lookup gave to the repository
Remove_noLookupCheck(id) ==
    /\ repoCalls' = <<"findOne", "remove">>
    /\ categories' = categories \ {findOneById(id)}
    /\ CatReturns("remove", id, NoCategory)
    /\ UNCHANGED nonCatVars

\* CategoriesService.remove(id)
Remove(id) ==
    /\ IF findOneById(id) = NoCategory
       THEN /\ repoCalls' = <<"findOne">>
            /\ CatThrows("remove", id, "NotFoundException: Category not found")
            /\ UNCHANGED categories
       ELSE /\ repoCalls' = <<"findOne", "remove">>
            /\ categories' = categories \ {findOneById(id)}
            /\ CatReturns("remove", id, NoCategory)
    /\ UNCHANGED nonCatVars

(***************************************************************************)
(* The assets list page (AssetsPage).  The component's state hooks are the *)
(* variables; an event handler, the debounce timer callback and each       *)
(* effect are one step each.  React runs the effects a commit scheduled    *)
(* before it handles the next event, so every other step waits for         *)
(* effects to be empty.  What the list endpoint answers (totalPages, an    *)
(* empty page or not) and whether useAssets keeps the previous data while  *)
(* a changed query loads are outside the page's code: both are free.       *)
(***************************************************************************)
MaxTotalPages == 3

TickMs == 100

DEBOUNCE_MS == 300

SearchTexts == {"", "a", "ab"}

StatusFilters == {"", "ACTIVE", "ASSIGNED", "MAINTENANCE", "RETIRED"}

SortFields == {"assetId", "name"}

NoData == [loaded |-> FALSE, totalPages |-> 0, empty |-> TRUE]

NoTimer == [armed |-> FALSE, value |-> "", due |-> 0]

\* the page after its first render and the effects of that render
PageIdle ==
    /\ search = ""
    /\ debouncedSearch = ""
    /\ statusFilter = ""
    /\ currentPage = 1
    /\ sortField = "assetId"
    /\ sortOrder = "asc"
    /\ data = NoData
    /\ timer = [armed |-> TRUE, value |-> "", due |-> DEBOUNCE_MS]
    /\ effects = {}
    /\ lastEvent = "mount"
    /\ pageBefore = 1

Max(a, b) == IF a >= b THEN a ELSE b

Min(a, b) == IF a <= b THEN a ELSE b

\* data?.totalPages || 1
TotalPagesOr1(d) ==
    IF d.loaded /\ d.totalPages # 0 THEN d.totalPages ELSE 1

NextPage_unclamped(prev, d) == prev + 1

\* the updater of handleNextPage
NextPage(prev, d) == Min(TotalPagesOr1(d), prev + 1)

\* the updater of handlePreviousPage
PreviousPage(prev) == Max(1, prev - 1)

\* the render that follows a changed query: the data of the old query is
\* kept or dropped until the new one has loaded
Refetch(changed) == IF changed THEN {data, NoData} ELSE {data}

\* the table is rendered, with rows
TableShown == data.loaded /\ ~data.empty

\* the Previous / Next buttons are rendered
PaginationShown == TableShown /\ data.totalPages > 1

\* the search box's onChange
setSearch(text) ==
    /\ effects = {}
    /\ text # search
    /\ search' = text
    /\ effects' = {"search"}
    /\ lastEvent' = "setSearch"
    /\ pageBefore' = currentPage
    /\ UNCHANGED <<debouncedSearch, statusFilter, currentPage, sortField,
                   sortOrder, data, timer, nonPageVars>>

\* the status select's onChange
setStatusFilter(status) ==
    /\ effects = {}
    /\ status # statusFilter
    /\ statusFilter' = status
    /\ effects' = {"statusFilter"}
    /\ data' \in Refetch(TRUE)
    /\ lastEvent' = "setStatusFilter"
    /\ pageBefore' = currentPage
    /\ UNCHANGED <<search, debouncedSearch, currentPage, sortField,
                   sortOrder, timer, nonPageVars>>

\* useEffect on [search]: clear the previous timer, start a new one
DebounceEffect ==
    /\ "search" \in effects
    /\ timer' = [armed |-> TRUE, value |-> search, due |-> DEBOUNCE_MS]
    /\ effects' = effects \ {"search"}
    /\ lastEvent' = "effect:search"
    /\ pageBefore' = currentPage
    /\ UNCHANGED <<search, debouncedSearch, statusFilter, currentPage,
                   sortField, sortOrder, data, nonPageVars>>

ResetPageEffect_noReset ==
    /\ "statusFilter" \in effects
    /\ effects' = effects \ {"statusFilter"}
    /\ lastEvent' = "effect:statusFilter"
    /\ pageBefore' = currentPage
    /\ UNCHANGED <<search, debouncedSearch, statusFilter, currentPage,
                   sortField, sortOrder, data, timer, nonPageVars>>

\* useEffect on [statusFilter]
ResetPageEffect ==
    /\ "statusFilter" \in effects
    /\ currentPage' = 1
    /\ data' \in Refetch(currentPage # 1)
    /\ effects' = effects \ {"statusFilter"}
    /\ lastEvent' = "effect:statusFilter"
    /\ pageBefore' = currentPage
    /\ UNCHANGED <<search, debouncedSearch, statusFilter, sortField,
                   sortOrder, timer, nonPageVars>>

\* time passes while the debounce timer runs
TimePasses ==
    /\ effects = {}
    /\ timer.armed
    /\ timer.due > 0
    /\ timer' = [timer EXCEPT !.due = Max(0, @ - TickMs)]
    /\ lastEvent' = "tick"
    /\ pageBefore' = currentPage
    /\ UNCHANGED <<search, debouncedSearch, statusFilter, currentPage,
                   sortField, sortOrder, data, effects, nonPageVars>>

\* the setTimeout callback of the debounce effect
TimerFires ==
    /\ effects = {}
    /\ timer.armed
    /\ timer.due = 0
    /\ debouncedSearch' = timer.value
    /\ currentPage' = 1
    /\ timer' = NoTimer
    /\ data' \in Refetch(debouncedSearch # timer.value \/ currentPage # 1)
    /\ lastEvent' = "debounce"
    /\ pageBefore' = currentPage
    /\ UNCHANGED <<search, statusFilter, sortField, sortOrder, effects,
                   nonPageVars>>

handleSort(field) ==
    /\ effects = {}
    /\ TableShown
    /\ IF sortField = field
       THEN /\ sortOrder' = (IF sortOrder = "asc" THEN "desc" ELSE "asc")
            /\ UNCHANGED sortField
       ELSE /\ sortField' = field
            /\ sortOrder' = "asc"
    /\ data' \in Refetch(TRUE)
    /\ lastEvent' = "handleSort"
    /\ pageBefore' = currentPage
    /\ UNCHANGED <<search, debouncedSearch, statusFilter, currentPage, timer,
                   effects, nonPageVars>>

\* the Previous button: rendered, and not disabled
handlePreviousPage ==
    /\ effects = {}
    /\ PaginationShown
    /\ currentPage # 1
    /\ currentPage' = PreviousPage(currentPage)
    /\ data' \in Refetch(currentPage' # currentPage)
    /\ lastEvent' = "handlePreviousPage"
    /\ pageBefore' = currentPage
    /\ UNCHANGED <<search, debouncedSearch, statusFilter, sortField,
                   sortOrder, timer, effects, nonPageVars>>

\* the Next button: rendered, and not disabled
handleNextPage ==
    /\ effects = {}
    /\ PaginationShown
    /\ currentPage # data.totalPages
    /\ currentPage' = NextPage(currentPage, data)
    /\ data' \in Refetch(currentPage' # currentPage)
    /\ lastEvent' = "handleNextPage"
    /\ pageBefore' = currentPage
    /\ UNCHANGED <<search, debouncedSearch, statusFilter, sortField,
                   sortOrder, timer, effects, nonPageVars>>

\* the request of the current query resolves
DataLoads(totalPages, empty) ==
    /\ effects = {}
    /\ data' = [loaded |-> TRUE, totalPages |-> totalPages, empty |-> empty]
    /\ lastEvent' = "dataLoaded"
    /\ pageBefore' = currentPage
    /\ UNCHANGED <<search, debouncedSearch, statusFilter, currentPage,
                   sortField, sortOrder, timer, effects, nonPageVars>>

(***************************************************************************)
(* The browser's auth state: useAuthStore, the localStorage entries it     *)
(* writes and the auth-token cookie, whose age advances in days until the  *)
(* browser drops it at max-age.  The persist wrapper mirrors the store     *)
(* under 'auth-storage' on every set and restores it on a page load.       *)
(* The route middleware reads the cookie from the request: Navigate is a   *)
(* request of this browser, routed through config.matcher; Middleware is   *)
(* the exported function applied to any request.                           *)
(***************************************************************************)
Null == "<null>"

Tokens == {"", "tok1", "tok2"}

Users == {[id |-> "u1", name |-> "Ada"], [id |-> "u2", name |-> "Bo"]}

NullUser == [id |-> Null, name |-> Null]

Pathnames ==
    {"/", "/login", "/signin", "/signup", "/register", "/dashboard",
     "/dashboard/reports", "/assets", "/assets/42", "/assetsfoo",
     "/departments", "/departments/7", "/users", "/users/9", "/user"}

DaySeconds == 60 * 60 * 24

COOKIE_MAX_AGE == 60 * 60 * 24 * 7

InitialStore == [user |-> NullUser, token |-> Null, isAuthenticated |-> FALSE]

NoCookie == [present |-> FALSE, value |-> "", age |-> 0]

NoRequest == [pathname |-> "", token |-> Undefined]

NoResponse ==
    [via |-> "none", ran |-> FALSE, kind |-> "none", location |-> "",
     redirect |-> ""]

AuthIdle ==
    /\ store = InitialStore
    /\ localStorage = [token |-> Null, user |-> Null,
                       authStorage |-> InitialStore]
    /\ cookie = NoCookie
    /\ request = NoRequest
    /\ response = NoResponse
    /\ authOp = "none"

JSONStringify(user) ==
    IF user = NullUser
    THEN "null"
    ELSE "{\"id\":\"" \o user.id \o "\",\"name\":\"" \o user.name \o "\"}"

JSONParse(text) ==
    IF text = "null"
    THEN NullUser
    ELSE CHOOSE user \in Users : JSONStringify(user) = text

\* a JavaScript string-or-null used as a condition
TruthyString(v) == v # Null /\ v # Undefined /\ v # ""

\* partialize: what persist keeps of the state
partialize(state) ==
    [user |-> state.user, token |-> state.token,
     isAuthenticated |-> state.isAuthenticated]

setAuth(token, user) ==
    /\ localStorage' =
           [token |-> token, user |-> JSONStringify(user),
            authStorage |->
                partialize([user |-> user, token |-> token,
                            isAuthenticated |-> TRUE])]
    /\ cookie' = [present |-> TRUE, value |-> token, age |-> 0]
    /\ store' = [user |-> user, token |-> token, isAuthenticated |-> TRUE]
    /\ authOp' = "setAuth"
    /\ UNCHANGED <<request, response, nonAuthVars>>

logout ==
    /\ localStorage' = [token |-> Null, user |-> Null,
                        authStorage |-> partialize(InitialStore)]
    /\ cookie' = NoCookie
    /\ store' = [user |-> NullUser, token |-> Null,
                 isAuthenticated |-> FALSE]
    /\ authOp' = "logout"
    /\ UNCHANGED <<request, response, nonAuthVars>>

loadAuthFromStorage ==
    LET token == localStorage.token
        user == JSONParse(IF TruthyString(localStorage.user)
                          THEN localStorage.user
                          ELSE "null")
        loaded == [user |-> user, token |-> token, isAuthenticated |-> TRUE]
    IN  /\ IF TruthyString(token) /\ user # NullUser
           THEN /\ store' = loaded
                /\ localStorage' =
                       [localStorage EXCEPT !.authStorage = partialize(loaded)]
           ELSE UNCHANGED <<store, localStorage>>
        /\ authOp' = "loadAuthFromStorage"
        /\ UNCHANGED <<cookie, request, response, nonAuthVars>>

\* a new document: the store is created again and persist restores it
PageLoad ==
    /\ store' = localStorage.authStorage
    /\ authOp' = "pageLoad"
    /\ UNCHANGED <<localStorage, cookie, request, response, nonAuthVars>>

\* a day passes; the browser drops the cookie when its max-age is reached
DayPasses ==
    /\ cookie.present
    /\ cookie' = IF cookie.age + DaySeconds >= COOKIE_MAX_AGE
                 THEN NoCookie
                 ELSE [cookie EXCEPT !.age = @ + DaySeconds]
    /\ authOp' = "dayPasses"
    /\ UNCHANGED <<store, localStorage, request, response, nonAuthVars>>

PROTECTED == {"/assets", "/departments", "/users"}

AUTH_PAGES == {"/login", "/signup", "/register"}

\* String.prototype.startsWith
startsWith(text, prefix) ==
    /\ Len(prefix) <= Len(text)
    /\ SubSeq(text, 1, Len(prefix)) = prefix

isProtected_exact(pathname) == pathname \in PROTECTED

isProtected(pathname) == \E route \in PROTECTED : startsWith(pathname, route)

isAuthPage(pathname) == pathname \in AUTH_PAGES

\* the exported middleware, as a function of the request
middleware(req) ==
    IF isProtected(req.pathname) /\ ~TruthyString(req.token)
    THEN [kind |-> "redirect", location |-> "/login",
          redirect |-> req.pathname]
    ELSE [kind |-> "next", location |-> "", redirect |-> ""]

\* the prefixes of config.matcher that take ':path*', and its exact paths
MatcherAreas == {"/dashboard", "/assets", "/departments", "/users"}

MatcherExact == {"/signin", "/signup"}

inArea(pathname, area) ==
    pathname = area \/ startsWith(pathname, area \o "/")

matches(pathname) ==
    \/ \E area \in MatcherAreas : inArea(pathname, area)
    \/ pathname \in MatcherExact

\* req.cookies.get('auth-token')?.value for a request of this browser
cookieValue == IF cookie.present THEN cookie.value ELSE Undefined

\* the browser requests a page: the middleware runs if the matcher matches
Navigate(pathname) ==
    LET req == [pathname |-> pathname, token |-> cookieValue]
        res == middleware(req)
    IN  /\ request' = req
        /\ response' =
               IF matches(pathname)
               THEN [via |-> "matcher", ran |-> TRUE, kind |-> res.kind,
                     location |-> res.location, redirect |-> res.redirect]
               ELSE [via |-> "matcher", ran |-> FALSE, kind |-> "next",
                     location |-> "", redirect |-> ""]
        /\ authOp' = "navigate"
        /\ UNCHANGED <<store, localStorage, cookie, nonAuthVars>>

\* the middleware function applied to a request
Middleware(pathname, token) ==
    LET req == [pathname |-> pathname, token |-> token]
        res == middleware(req)
    IN  /\ request' = req
        /\ response' = [via |-> "call", ran |-> TRUE, kind |-> res.kind,
                        location |-> res.location, redirect |-> res.redirect]
        /\ authOp' = "middleware"
        /\ UNCHANGED <<store, localStorage, cookie, nonAuthVars>>

(***************************************************************************)
(* ReportsService.getSummary.  Each awaited repository query is a step     *)
(* that reads the asset table as it is when the query runs; between two    *)
(* steps other requests of the backend insert and delete assets.  Only     *)
(* the status of each row is kept: the by-category, by-department and      *)
(* recent queries take their step and their rows are left out.             *)
(***************************************************************************)
MaxAssets == 2

NoRows == [s \in AssetStatuses |-> 0]

NoByStatus == [s \in {} |-> 0]

IdleSummary == [pc |-> "idle", total |-> 0, byStatus |-> NoByStatus]

NoSummary == [returned |-> FALSE, total |-> 0, byStatus |-> NoByStatus]

RepIdle ==
    /\ assetRows = NoRows
    /\ summary = IdleSummary
    /\ summaryResult = NoSummary

RECURSIVE SumOver(_, _)
SumOver(f, S) ==
    IF S = {}
    THEN 0
    ELSE LET s == CHOOSE x \in S : TRUE
         IN  f[s] + SumOver(f, S \ {s})

\* assetsRepo.count()
count == SumOver(assetRows, AssetStatuses)

Digit(d) == SubSeq("0123456789", d + 1, d + 1)

\* COUNT(*) as the driver hands it over: a decimal string
RECURSIVE DecimalString(_)
DecimalString(n) ==
    IF n < 10 THEN Digit(n) ELSE DecimalString(n \div 10) \o Digit(n % 10)

\* Number(count)
RECURSIVE ParseCount(_)
ParseCount(text) ==
    IF Len(text) = 0
    THEN 0
    ELSE LET last == SubSeq(text, Len(text), Len(text))
         IN  10 * ParseCount(SubSeq(text, 1, Len(text) - 1))
               + (CHOOSE d \in 0..9 : Digit(d) = last)

\* SELECT a.status, COUNT(*) ... GROUP BY a.status
statusRows ==
    {[status |-> s, count |-> DecimalString(assetRows[s])] :
        s \in {x \in AssetStatuses : assetRows[x] > 0}}

\* the reduce over Object.values(AssetStatus), then the loop over the rows
byStatusOf(rows) ==
    [s \in AssetStatuses |->
        IF \E row \in rows : row.status = s
        THEN ParseCount((CHOOSE row \in rows : row.status = s).count)
        ELSE 0]

\* another request inserts an asset
CreateAsset(status) ==
    /\ count < MaxAssets
    /\ assetRows' = [assetRows EXCEPT ![status] = @ + 1]
    /\ UNCHANGED <<summary, summaryResult, nonRepVars>>

\* another request deletes an asset
DeleteAsset(status) ==
    /\ assetRows[status] > 0
    /\ assetRows' = [assetRows EXCEPT ![status] = @ - 1]
    /\ UNCHANGED <<summary, summaryResult, nonRepVars>>

\* GET /reports/summary: the call starts and awaits count()
getSummary ==
    /\ summary.pc = "idle"
    /\ summary' = [IdleSummary EXCEPT !.pc = "count"]
    /\ summaryResult' = NoSummary
    /\ UNCHANGED <<assetRows, nonRepVars>>

CountReturns ==
    /\ summary.pc = "count"
    /\ summary' = [summary EXCEPT !.pc = "statusRows", !.total = count]
    /\ UNCHANGED <<assetRows, summaryResult, nonRepVars>>

StatusRowsReturn ==
    /\ summary.pc = "statusRows"
    /\ summary' = [summary EXCEPT !.pc = "byCategory",
                                  !.byStatus = byStatusOf(statusRows)]
    /\ UNCHANGED <<assetRows, summaryResult, nonRepVars>>

ByCategoryReturns ==
    /\ summary.pc = "byCategory"
    /\ summary' = [summary EXCEPT !.pc = "byDepartment"]
    /\ UNCHANGED <<assetRows, summaryResult, nonRepVars>>

ByDepartmentReturns ==
    /\ summary.pc = "byDepartment"
    /\ summary' = [summary EXCEPT !.pc = "recent"]
    /\ UNCHANGED <<assetRows, summaryResult, nonRepVars>>

\* the last query returns and getSummary resolves
RecentReturns ==
    /\ summary.pc = "recent"
    /\ summaryResult' = [returned |-> TRUE, total |-> summary.total,
                         byStatus |-> summary.byStatus]
    /\ summary' = IdleSummary
    /\ UNCHANGED <<assetRows, nonRepVars>>

\* every subsystem but the bridge, before anything has happened in it
FrontIdle == PageIdle /\ AuthIdle /\ RepIdle

PageInit == EnabledBridge /\ ConcIdle /\ CatIdle /\ FrontIdle

PageNext ==
    \/ \E text \in SearchTexts : setSearch(text)
    \/ \E status \in StatusFilters : setStatusFilter(status)
    \/ DebounceEffect
    \/ ResetPageEffect
    \/ TimePasses
    \/ TimerFires
    \/ \E field \in SortFields : handleSort(field)
    \/ handlePreviousPage
    \/ handleNextPage
    \/ \E totalPages \in 0..MaxTotalPages, empty \in BOOLEAN :
           DataLoads(totalPages, empty)

PageSpec == PageInit /\ [][PageNext]_vars

AuthInit == EnabledBridge /\ ConcIdle /\ CatIdle /\ FrontIdle

AuthNext ==
    \/ \E token \in Tokens, user \in Users : setAuth(token, user)
    \/ logout
    \/ loadAuthFromStorage
    \/ PageLoad
    \/ DayPasses
    \/ \E pathname \in Pathnames : Navigate(pathname)
    \/ \E pathname \in Pathnames, token \in Tokens \cup {Undefined} :
           Middleware(pathname, token)

AuthSpec == AuthInit /\ [][AuthNext]_vars

RepInit == EnabledBridge /\ ConcIdle /\ CatIdle /\ FrontIdle

RepNext ==
    \/ \E status \in AssetStatuses : CreateAsset(status)
    \/ \E status \in AssetStatuses : DeleteAsset(status)
    \/ getSummary
    \/ CountReturns
    \/ StatusRowsReturn
    \/ ByCategoryReturns
    \/ ByDepartmentReturns
    \/ RecentReturns

RepSpec == RepInit /\ [][RepNext]_vars

ConcInit == EnabledBridge /\ ConcIdle /\ CatIdle /\ FrontIdle

ConcNext ==
    \E c \in Calls :
        \/ CRegisterAsset(c)
        \/ CGetAccountReturns(c)
        \/ CSimulateReturns(c)
        \/ CSendReturns(c)
        \/ CPoll(c)
        \/ LedgerCloses(c)

ConcSpec == ConcInit /\ [][ConcNext]_vars

CatInit == EnabledBridge /\ ConcIdle /\ CatIdle /\ FrontIdle

CatNext ==
    \/ \E name \in CategoryNames : Create(name)
    \/ \E id \in CategoryIds : FindOne(id)
    \/ \E id \in CategoryIds : Remove(id)

CatSpec == CatInit /\ [][CatNext]_vars

(***************************************************************************)
(* Specifications                                                          *)
(***************************************************************************)
Init == StellarInit /\ ConcIdle /\ CatIdle /\ FrontIdle

StellarNext ==
    \/ OnModuleInit
    \/ RegisterAsset
    \/ GetAccountReturns
    \/ SimulateReturns
    \/ SendReturns
    \/ SleepReturns
    \/ GetTransactionReturns

Next == StellarNext

Spec == Init /\ [][Next]_vars

\* every awaited external call (and timer) eventually returns
FairSpec ==
    /\ Spec
    /\ WF_vars(GetAccountReturns)
    /\ WF_vars(SimulateReturns)
    /\ WF_vars(SendReturns)
    /\ WF_vars(SleepReturns)
    /\ WF_vars(GetTransactionReturns)

TypeOK ==
    /\ initState \in {"constructed", "done", "threw"}
    /\ enabled \in BOOLEAN
    /\ pc \in {"idle", "getAccount", "simulateTransaction", "sendTransaction",
               "sleep", "getTransaction", "done"}
    /\ attempt \in 0..(MAX_ATTEMPTS + 1)
    /\ outcome \in {"none", "returned", "threw"}

(***************************************************************************)
(* Helpers for the properties                                              *)
(***************************************************************************)
Pending(status) == status \notin {"SUCCESS", "FAILED"}

\* the first n status queries of the current call all returned pending
AllPending(n) == \A j \in 1..n : Pending(polled[j])

IsPrefix(s, t) == Len(s) <= Len(t) /\ \A i \in 1..Len(s) : s[i] = t[i]

\* the one order in which a call may take its steps
FullTrace ==
    <<"getAccount", "build", "simulateTransaction", "assemble", "sign",
      "sendTransaction">>
    \o [i \in 1..40 |-> IF i % 2 = 1 THEN "sleep" ELSE "getTransaction"]

FullExternal ==
    <<"getAccount", "simulateTransaction", "sendTransaction">>
    \o [i \in 1..20 |-> "getTransaction"]

(***************************************************************************)
(* Properties of registerAsset and pollForConfirmation                     *)
(***************************************************************************)

\* C1: when simulateTransaction returns a simulation error, the call raises
\* 'Simulation failed' carrying that error, and the call has issued neither a
\* sendTransaction nor a getTransaction.
C1_SimulationErrorAborts ==
    simResult.kind = "error" =>
        /\ pc = "done"
        /\ outcome = "threw"
        /\ error.message = "Simulation failed"
        /\ error.detail = simResult.error
        /\ Count(trace, "sendTransaction") = 0
        /\ Count(trace, "getTransaction") = 0

C1_Witness ==
    /\ pc = "done"
    /\ simResult.kind = "error"
    /\ Count(trace, "simulateTransaction") = 1

\* C2: when sendTransaction returns status ERROR, the call raises an error
\* whose message embeds the returned error payload, and the call has neither
\* slept nor issued a getTransaction.
C2_SubmissionErrorAborts ==
    sendResult.status = "ERROR" =>
        /\ pc = "done"
        /\ outcome = "threw"
        /\ error.message = "Transaction submission failed"
        /\ error.detail = sendResult.errorResult
        /\ Count(trace, "getTransaction") = 0
        /\ Count(trace, "sleep") = 0
        /\ polled = <<>>

C2_Witness ==
    /\ pc = "done"
    /\ sendResult.status = "ERROR"
    /\ sendResult.errorResult = "e2"
    /\ Count(trace, "sendTransaction") = 1

\* C3: for every attempt k in 1..20, when the k-th status query returns
\* FAILED after k-1 pending ones, the call raises the on-chain failure at
\* once and there is no (k+1)-th status query.
C3_FailedStopsPolling ==
    \A k \in 1..20 :
        (Len(polled) >= k /\ AllPending(k - 1) /\ polled[k] = "FAILED") =>
            /\ Len(polled) = k
            /\ Count(trace, "getTransaction") = k
            /\ pc = "done"
            /\ outcome = "threw"
            /\ error.message = "Transaction failed on-chain"
            /\ error.detail = txHash

C3_Witness ==
    /\ pc = "done"
    /\ Len(polled) = 7
    /\ AllPending(6)
    /\ polled[7] = "FAILED"

\* C4: 20 consecutive pending status queries make the call raise the timeout
\* after exactly 20 queries, the timeout is raised in no other case, and no
\* call issues more than 20 getTransaction queries.
C4_TimeoutAfterTwentyPolls ==
    /\ Count(trace, "getTransaction") <= 20
    /\ Len(polled) <= 20
    /\ (Len(polled) = 20 /\ AllPending(20)) =>
            /\ pc = "done"
            /\ outcome = "threw"
            /\ error.message = "Transaction not confirmed"
            /\ Count(trace, "getTransaction") = 20
    /\ error.message = "Transaction not confirmed" =>
            /\ Len(polled) = 20
            /\ AllPending(20)

C4_Witness ==
    /\ pc = "done"
    /\ Len(polled) = 20
    /\ AllPending(20)
    /\ outcome = "threw"

\* C5: for every k in 1..20, when the first k-1 status queries return pending
\* and the k-th returns SUCCESS, the call returns the transaction hash after
\* exactly k status queries; the 20th attempt is still honoured.
C5_SuccessAtAttemptK ==
    \A k \in 1..20 :
        (Len(polled) >= k /\ AllPending(k - 1) /\ polled[k] = "SUCCESS") =>
            /\ pc = "done"
            /\ outcome = "returned"
            /\ retVal = txHash
            /\ retVal \in Hashes
            /\ Len(polled) = k
            /\ Count(trace, "getTransaction") = k

C5_Witness ==
    /\ outcome = "returned"
    /\ Len(polled) = 20
    /\ AllPending(19)
    /\ polled[20] = "SUCCESS"

\* C6: the call returns a value only after a status query returned SUCCESS,
\* the value is the hash sendTransaction returned in the same call, and a
\* call whose last observed status is pending or FAILED has not returned.
C6_ReturnsOnlyConfirmedHash ==
    /\ outcome = "returned" =>
            /\ polled # <<>>
            /\ polled[Len(polled)] = "SUCCESS"
            /\ sendResult.status \in SendStatuses \ {"ERROR"}
            /\ retVal = sendResult.hash
    /\ (polled # <<>> /\ polled[Len(polled)] # "SUCCESS") =>
            outcome # "returned"

C6_Witness ==
    /\ outcome = "returned"
    /\ retVal = "h2"
    /\ sendResult.hash = "h2"
    /\ sendResult.status = "TRY_AGAIN_LATER"

\* C7: on a disabled bridge a finished registerAsset call has issued no
\* external call and ended as a no-op or with a report that the bridge is
\* disabled.
C7_DisabledIsInert ==
    (initState = "done" /\ ~isEnabled /\ pc = "done") =>
        /\ External(trace) = <<>>
        /\ \/ outcome = "returned" /\ retVal = Undefined
           \/ outcome = "threw" /\ error.message = "Stellar integration is disabled"

\* C8: after onModuleInit, isEnabled is true exactly when STELLAR_ENABLED is
\* the string "true" and both the secret key and the contract id are
\* non-empty.
C8_EnabledIffConfigured ==
    initState # "constructed" =>
        (isEnabled <=>
            /\ config.STELLAR_ENABLED = "true"
            /\ config.STELLAR_SECRET_KEY \notin {Undefined, ""}
            /\ config.STELLAR_CONTRACT_ID \notin {Undefined, ""})

C8_Witness ==
    /\ initState = "done"
    /\ config.STELLAR_ENABLED = "true"
    /\ config.STELLAR_SECRET_KEY = "SVALID"
    /\ config.STELLAR_CONTRACT_ID = ""
    /\ ~isEnabled

\* C9: the steps of one call occur in the order getAccount, build, simulate,
\* assemble, sign, submit, then sleep/query rounds; getAccount,
\* simulateTransaction and sendTransaction are each issued at most once; the
\* external calls form a prefix of getAccount, simulateTransaction,
\* sendTransaction, getTransaction x 20; and no step is reached unless the
\* one before it succeeded.
C9_StepsInOrderNoRetry ==
    /\ IsPrefix(trace, FullTrace)
    /\ IsPrefix(External(trace), FullExternal)
    /\ Count(trace, "getAccount") <= 1
    /\ Count(trace, "simulateTransaction") <= 1
    /\ Count(trace, "sendTransaction") <= 1
    /\ Count(trace, "sendTransaction") > 0 => simResult.kind = "success"
    /\ Count(trace, "sleep") > 0 => sendResult.status \in SendStatuses \ {"ERROR"}
    /\ Count(trace, "getTransaction") > Len(polled) =>
            AllPending(Len(polled))
    /\ Count(trace, "getTransaction") \in {Len(polled), Len(polled) + 1}

C9_Witness ==
    /\ pc = "getTransaction"
    /\ Count(trace, "getTransaction") = 20
    /\ Len(polled) = 19

\* the outcome of a finished call on an enabled bridge is exactly one of:
\* the hash, simulation failure, submission failure, on-chain failure, timeout
OutcomeIsOneOfFive ==
    \/ /\ outcome = "returned"
       /\ retVal = sendResult.hash
       /\ retVal \in Hashes
       /\ error = NoError
       /\ simResult.kind = "success"
       /\ sendResult.status # "ERROR"
       /\ polled # <<>> /\ polled[Len(polled)] = "SUCCESS"
    \/ /\ outcome = "threw"
       /\ retVal = Undefined
       /\ \/ error.message = "Simulation failed" /\ simResult.kind = "error"
          \/ /\ error.message = "Transaction submission failed"
             /\ sendResult.status = "ERROR"
          \/ /\ error.message = "Transaction failed on-chain"
             /\ polled # <<>> /\ polled[Len(polled)] = "FAILED"
          \/ /\ error.message = "Transaction not confirmed"
             /\ Len(polled) = 20 /\ AllPending(20)

\* C10: provided every awaited call returns, every registerAsset call on an
\* enabled bridge terminates, and it ends in exactly one of the five
\* outcomes: no failure becomes a normal return and no call polls forever.
C10_TerminatesInOneOutcome ==
    /\ [](pc \notin {"idle", "done"} => <>(pc = "done"))
    /\ []((pc = "done" /\ isEnabled) => OutcomeIsOneOfFive)
    /\ []((pc \notin {"idle", "done"}) => (isEnabled /\ outcome = "none"))

C10_Witness ==
    /\ pc = "done"
    /\ isEnabled
    /\ outcome = "threw"
    /\ error.message = "Transaction failed on-chain"
    /\ Len(polled) = 20

(***************************************************************************)
(* Properties of the polling interval, the payload and the service fields  *)
(***************************************************************************)

\* C11: the polling loop waits 3000 ms before every status query, the first
\* included, so a call has waited 3000 ms per query issued, never more than
\* 20 x 3000 = 60000 ms, and 60000 ms only when all 20 attempts were used.
C11_WaitsAtMostSixtySeconds ==
    /\ waited = 3000 * Count(trace, "getTransaction")
    /\ Count(trace, "sleep") - Count(trace, "getTransaction") \in {0, 1}
    /\ waited <= 60000
    /\ waited = 60000 => Count(trace, "getTransaction") = 20

C11_Witness ==
    /\ waited = 60000
    /\ Len(polled) = 20
    /\ pc = "done"

\* C12: the status tag of the on-chain record is "Retired" for
\* AssetStatus.RETIRED and "Active" for every other status value, the
\* unrecognised one included.
C12_StatusTagIsRetiredOrActive ==
    assetScVal # NoScVal =>
        /\ assetScVal.status \in {"Retired", "Active"}
        /\ asset.status = "RETIRED" => assetScVal.status = "Retired"
        /\ asset.status # "RETIRED" => assetScVal.status = "Active"

C12_Witness ==
    /\ asset.status = "DISPOSED"
    /\ assetScVal.status = "Active"
    /\ pc = "getAccount"

\* C13: the purchase value is the price in cents rounded half up at the cent
\* boundary: 19.995 gives 2000, 0.005 gives 1, 19.99 gives 1999, and in
\* general a price of n thousandths gives floor((n + 5) / 10).
C13_RoundsHalfUp ==
    (assetScVal # NoScVal /\ asset.purchasePrice # NoPrice) =>
        /\ assetScVal.purchase_value = (asset.purchasePrice + 5) \div 10
        /\ asset.purchasePrice = 19995 => assetScVal.purchase_value = 2000
        /\ asset.purchasePrice = 5 => assetScVal.purchase_value = 1
        /\ asset.purchasePrice = 19990 => assetScVal.purchase_value = 1999

\* C14 as stated: the purchase value is the price times 100 with the
\* fraction of a cent discarded.
C14_Truncates ==
    (assetScVal # NoScVal /\ asset.purchasePrice # NoPrice) =>
        assetScVal.purchase_value = asset.purchasePrice \div 10

\* C14 (amended): the purchase value is the price times 100 rounded to a
\* nearest whole number of cents, so it differs from price x 100 by at most
\* half a cent and a fraction of a cent can round up; a null or zero price
\* gives 0.
C14_RoundsToNearestCent ==
    assetScVal # NoScVal =>
        IF asset.purchasePrice = NoPrice
        THEN assetScVal.purchase_value = 0
        ELSE /\ 10 * assetScVal.purchase_value - asset.purchasePrice \in -5..5
             /\ asset.purchasePrice = 0 => assetScVal.purchase_value = 0

C14_Witness ==
    /\ asset.purchasePrice = 19999
    /\ assetScVal.purchase_value = 2000
    /\ pc = "simulateTransaction"

\* C16: once onModuleInit has run, no step of registerAsset or of the polling
\* loop, returning or raising, changes the enabled flag, the signing key, the
\* contract id or the server handle.
C16_ServiceFieldsWrittenOnlyAtInit ==
    [][initState # "constructed" =>
          /\ enabled' = enabled
          /\ keypair' = keypair
          /\ contractId' = contractId
          /\ server' = server]_vars

C16_Witness ==
    /\ pc = "done"
    /\ outcome = "threw"
    /\ error.message = "Transaction not confirmed"
    /\ enabled
    /\ keypair = "SVALID"
    /\ server = "rpc.Server"

(***************************************************************************)
(* Properties of concurrent calls and of the network after a timeout       *)
(***************************************************************************)

\* C17: concurrent calls are not coordinated: while one call is between its
\* getAccount and its submission any idle call may start, and every
\* transaction carries the sequence number following the one its own call
\* fetched, whatever other calls have fetched or submitted since.
C17_CallsAreNotCoordinated ==
    /\ \A c \in Calls :
          calls[c].txSeq # -1 => calls[c].txSeq = calls[c].account + 1
    /\ \A c, d \in Calls :
          (/\ c # d
           /\ calls[c].pc \in {"getAccount", "simulateTransaction",
                               "sendTransaction"}
           /\ calls[d].pc = "idle") => ENABLED CRegisterAsset(d)

\* two calls fetched the account before either submitted, and both have
\* submitted a transaction with the same sequence number
C17_Witness ==
    \E c, d \in Calls :
        /\ c # d
        /\ calls[c].pc = "poll"
        /\ calls[d].pc = "poll"
        /\ ledger.tx[c] = "NOT_FOUND"
        /\ ledger.tx[d] = "NOT_FOUND"
        /\ calls[c].txSeq = calls[d].txSeq

\* C20: the timeout is raised after 20 polls that found the transaction
\* pending, and a call that has ended takes no further step, so the bridge
\* issues no later status query or notification for its transaction, which
\* the network may still confirm.
C20_TimeoutLeavesOutcomeOpen ==
    [][\A c \in Calls :
          /\ (/\ calls[c].outcome = "none"
              /\ calls'[c].outcome = "Transaction not confirmed") =>
                 (calls[c].attempt = 20 /\ ledger.tx[c] = "NOT_FOUND")
          /\ calls[c].outcome # "none" => calls'[c] = calls[c]]_vars

\* a call timed out and the network confirmed its transaction afterwards
C20_Witness ==
    \E c \in Calls :
        /\ calls[c].outcome = "Transaction not confirmed"
        /\ calls[c].pc = "done"
        /\ ledger.tx[c] = "SUCCESS"

(***************************************************************************)
(* Properties of CategoriesService                                         *)
(***************************************************************************)

\* C18: create on a name that a stored category has raises the
\* ConflictException, does not call save and leaves the stored categories
\* unchanged; on a free name it looks the name up, creates and saves the
\* category and returns it.
C18_CreateConflictSavesNothing ==
    [][catResult'.op = "create" =>
          IF \E x \in categories : x.name = catResult'.arg
          THEN /\ catResult'.outcome = "threw"
               /\ catResult'.error =
                    "ConflictException: A category with this name already exists"
               /\ \A i \in 1..Len(repoCalls') : repoCalls'[i] # "save"
               /\ categories' = categories
          ELSE /\ catResult'.outcome = "returned"
               /\ repoCalls' = <<"findOne", "create", "save">>
               /\ catResult'.value.name = catResult'.arg
               /\ catResult'.value \notin categories
               /\ categories' = categories \cup {catResult'.value}]_vars

C18_Witness ==
    /\ catResult.op = "create"
    /\ catResult.outcome = "threw"
    /\ \E x \in categories : x.name = catResult.arg

\* C19: remove and findOne on an id that no stored category has raise the
\* NotFoundException without calling repository remove and leave the stored
\* categories unchanged; remove on a stored id removes exactly that category.
C19_RemoveMissingIsNotFound ==
    [][catResult'.op \in {"remove", "findOne"} =>
          IF \A x \in categories : x.id # catResult'.arg
          THEN /\ catResult'.outcome = "threw"
               /\ catResult'.error = "NotFoundException: Category not found"
               /\ \A i \in 1..Len(repoCalls') : repoCalls'[i] # "remove"
               /\ categories' = categories
          ELSE /\ catResult'.outcome = "returned"
               /\ IF catResult'.op = "remove"
                  THEN categories' =
                         {x \in categories : x.id # catResult'.arg}
                  ELSE /\ categories' = categories
                       /\ catResult'.value \in categories
                       /\ catResult'.value.id = catResult'.arg]_vars

C19_Witness ==
    /\ catResult.op = "remove"
    /\ catResult.outcome = "threw"
    /\ categories # {}
    /\ \A x \in categories : x.id # catResult.arg

(***************************************************************************)
(* Properties of the assets list page                                      *)
(***************************************************************************)

\* C21: a change of the status filter schedules the reset effect, and while
\* that effect is pending the only step is the effect itself, which sets
\* currentPage to 1: no handler runs in between.  A new debounced search
\* term is set only by the debounce timer, 300 ms after the effect of the
\* last keystroke armed it, is the text of the search box, and comes with
\* currentPage = 1 in the same step.  Both hold from every page.
C21_FilterAndDebounceResetPage ==
    [][/\ statusFilter' # statusFilter => "statusFilter" \in effects'
       /\ "statusFilter" \in effects =>
              /\ "statusFilter" \notin effects'
              /\ statusFilter' = statusFilter
              /\ currentPage' = 1
       /\ debouncedSearch' # debouncedSearch =>
              /\ timer.armed /\ timer.due = 0
              /\ debouncedSearch' = search
              /\ currentPage' = 1]_vars

\* the reset effect of a filter change has just run on a later page
C21_Witness ==
    /\ lastEvent = "effect:statusFilter"
    /\ statusFilter # ""
    /\ pageBefore > 1
    /\ currentPage = 1

\* C22: currentPage never goes below 1, and a step of handleNextPage leaves
\* currentPage at most the totalPages of the data the page had loaded when
\* the button was pressed (at most 1 when it had none).
C22_PageWithinBounds ==
    [][/\ currentPage' >= 1
       /\ lastEvent' = "handleNextPage" =>
              currentPage' <= (IF data.loaded THEN data.totalPages ELSE 1)]_vars

\* handleNextPage ran on a page beyond the loaded totalPages and the
\* minimum took the page back to it
C22_Witness ==
    /\ lastEvent = "handleNextPage"
    /\ pageBefore > 1
    /\ currentPage < pageBefore

(***************************************************************************)
(* Properties of the auth store and the route middleware                   *)
(***************************************************************************)

\* C23: whenever the store reports isAuthenticated, the auth-token cookie
\* is present and carries the store's token; after logout the store's
\* token and user are null, isAuthenticated is false, and the localStorage
\* entries and the cookie are gone.
C23_AuthenticatedHasCookie ==
    /\ store.isAuthenticated =>
           cookie.present /\ cookie.value = store.token
    /\ authOp = "logout" =>
           /\ store.token = Null
           /\ store.user = NullUser
           /\ ~store.isAuthenticated
           /\ localStorage.token = Null
           /\ localStorage.user = Null
           /\ ~cookie.present

\* C24: the middleware answers a request with a redirect exactly when the
\* pathname starts with /assets, /departments or /users and the request
\* has no auth-token cookie or an empty one; the redirect goes to /login
\* with redirect set to the requested pathname, and every other request
\* is passed on as it came.
C24_RedirectIffProtectedWithoutToken ==
    response.ran =>
        LET protected ==
                \E prefix \in {"/assets", "/departments", "/users"} :
                    /\ Len(prefix) <= Len(request.pathname)
                    /\ SubSeq(request.pathname, 1, Len(prefix)) = prefix
            hasToken == request.token \notin {Undefined, ""}
        IN  /\ response.kind = "redirect" <=> (protected /\ ~hasToken)
            /\ response.kind = "redirect" =>
                   /\ response.location = "/login"
                   /\ response.redirect = request.pathname
            /\ response.kind # "redirect" =>
                   /\ response.kind = "next"
                   /\ response.location = ""
                   /\ response.redirect = ""

\* a request below /assets with an empty auth-token cookie was redirected
C24_Witness ==
    /\ response.ran
    /\ request.pathname = "/assets/42"
    /\ request.token = ""
    /\ response.kind = "redirect"
    /\ response.redirect = "/assets/42"

\* C25: a request without an auth-token cookie to a path in one of the
\* areas of config.matcher (/dashboard, /assets, /departments, /users and
\* what lies below them) is answered with a redirect to /login.
C25_UnauthenticatedAreaIsRedirected ==
    (/\ response.kind # "none"
     /\ request.token = Undefined
     /\ \E area \in {"/dashboard", "/assets", "/departments", "/users"} :
            \/ request.pathname = area
            \/ /\ Len(area) + 1 <= Len(request.pathname)
               /\ SubSeq(request.pathname, 1, Len(area) + 1) = area \o "/") =>
        /\ response.kind = "redirect"
        /\ response.location = "/login"

(***************************************************************************)
(* Properties of ReportsService.getSummary                                 *)
(***************************************************************************)

\* C26: in every result of getSummary, byStatus has an entry for each
\* AssetStatus value and total is the sum of the byStatus counts, whatever
\* other requests inserted or deleted between the queries.
C26_TotalIsSumOfByStatus ==
    summaryResult.returned =>
        /\ DOMAIN summaryResult.byStatus = AssetStatuses
        /\ summaryResult.total =
               SumOver(summaryResult.byStatus, AssetStatuses)

====
